---- MODULE Spec2Model ----
(***************************************************************************)
(* A model of the LiDAR processing pipeline: the Euclidean distance        *)
(* tracker (tracker.py), the rule based classifier and the feature         *)
(* extraction (object_features.py), the clustering wrapper                 *)
(* (clustering.py), the frame reader (io_utils.py), the ground filter      *)
(* (ground_filter.py) and the processing loop (main.py).                   *)
(*                                                                         *)
(* Units.  Every length is an integer number of centimetres (decimetres    *)
(* in the ground filter, to keep the squares small): the features          *)
(* the pipeline works with are rounded to two decimals of a metre          *)
(* (object_features.py:39-44).  A centroid x + w / 2 is stored doubled     *)
(* (2x + w, in half centimetres) so that the division is exact, and        *)
(* distances are compared by their squares, which orders them as           *)
(* math.hypot does.                                                        *)
(***************************************************************************)
EXTENDS Integers, Sequences, FiniteSets, TLC

VARIABLES
    pc,               \* position of the program being run
    center_points,    \* tracker: the dict {object_id: (cx, cy)}, in insertion order
    id_count,         \* tracker: the id counter
    objects_rects,    \* the detections given to the last update call
    prev_points,      \* center_points as the last update call found it
    best_match,       \* last update: best_match_idx per identity of prev_points
    tracked_objects,  \* the list the last update call returned
    assigned,         \* history: the ids assigned to new objects, in order
    lost,             \* history: ids that were in one output and not in the next
    feature,          \* classifier: the feature dict given to classify_object_advanced
    class,            \* classifier: the label it returned ("" before the call)
    points,           \* the array given to filter_ground_ransac or to
                      \* cluster_objects, rows (x, y, z, intensity)
    plane_model,      \* ground filter: the plane (a, b, c, d) segment_plane found
    inliers,          \* ground filter: the indices segment_plane returned
    non_ground_points, \* ground filter: the array filter_ground_ransac returned
    eps,              \* clustering: the neighbourhood radius
    min_samples,      \* clustering: the core point threshold
    labels,           \* clustering: the label of each point (-1: noise)
    n_clusters,       \* clustering: the number of non-noise clusters
    features,         \* the list extract_features returned (main.py: with class and id)
    nframes,          \* main: len(all_paths)
    frame_i,          \* main: i of the loop, the number of frames it has taken
    frame,            \* main: the frame source the loop took last
    inputs,           \* history: per frame taken, whether it was read and what was left
    written,          \* main: the frame numbers with an output file
    skipped,          \* main: the frame numbers reported as skipped, not read
    output_data       \* main: the records written last

trackerVars == <<center_points, id_count, objects_rects, prev_points,
                 best_match, tracked_objects, assigned, lost>>

classifyVars == <<feature, class>>

clusterVars == <<points, eps, min_samples, labels, n_clusters>>

groundVars == <<plane_model, inliers, non_ground_points>>

pipelineVars == <<nframes, frame_i, frame, inputs, written, skipped, output_data>>

vars == <<pc, trackerVars, classifyVars, clusterVars, groundVars, features,
          pipelineVars>>

\* ------------------------------------------------------------------ bounds

MaxDets == 2

MaxId == 4

MaxPoints == 7

MaxFrames == 3

MaxClusters == 2

\* The largest number of rows of an array given to the ground filter.
MaxCloud == 6

\* The number of samples segment_plane draws (1000 in the code).
num_iterations == 2

\* ---------------------------------------------------------------- helpers

Range(s) == {s[k] : k \in 1..Len(s)}

SeqsUpTo(S, n) == UNION {[1..k -> S] : k \in 0..n}

RECURSIVE SelectIdx(_, _, _)
SelectIdx(s, keep, k) ==
    IF k > Len(s) THEN <<>>
    ELSE (IF keep[k] THEN <<s[k]>> ELSE <<>>) \o SelectIdx(s, keep, k + 1)

\* ---------------------------------------------------------------- tracker

\* dist_thresh = 5.0 metres, in half centimetres.
dist_thresh == 1000

\* cx = x + w / 2, cy = y + h / 2 (doubled).
Centroid(rect) == <<2 * rect[1] + rect[3], 2 * rect[2] + rect[4]>>

\* math.hypot(cx - pt[0], cy - pt[1]), squared.
Hypot2(c, pt) ==
    (c[1] - pt[1]) * (c[1] - pt[1]) + (c[2] - pt[2]) * (c[2] - pt[2])

\* if dist < min_dist (both squared).
CloserEq(dist, min_dist) == dist <= min_dist
Closer(dist, min_dist) == dist < min_dist

\* The dict as a sequence of [id, pt] in insertion order: d[key] = value
\* replaces the value of a key in place and appends a new key.
DictSet(d, key, value) ==
    IF \E k \in 1..Len(d) : d[k].id = key
    THEN [k \in 1..Len(d) |->
             IF d[k].id = key THEN [id |-> key, pt |-> value] ELSE d[k]]
    ELSE Append(d, [id |-> key, pt |-> value])

Ids(d) == {d[k].id : k \in 1..Len(d)}

\* list.remove(value): drops the first occurrence.
ListRemoveNone(l, v) == l
RECURSIVE ListRemove(_, _)
ListRemove(l, v) ==
    IF l = <<>> THEN <<>>
    ELSE IF Head(l) = v THEN Tail(l)
    ELSE <<Head(l)>> \o ListRemove(Tail(l), v)

\* The inner loop over unmatched_detections for one tracked object, from
\* position k of the list on: the best_match_idx it ends with (-1: none).
\* min_dist is squared.
RECURSIVE ScanDetections(_, _, _, _, _, _)
ScanDetections(rects, unmatched, pt, k, best_match_idx, min_dist) ==
    IF k > Len(unmatched) THEN best_match_idx
    ELSE LET i == unmatched[k]
             dist == Hypot2(Centroid(rects[i]), pt)
         IN  IF Closer(dist, min_dist)
             THEN ScanDetections(rects, unmatched, pt, k + 1, i, dist)
             ELSE ScanDetections(rects, unmatched, pt, k + 1,
                                 best_match_idx, min_dist)

\* if best_match_idx != -1: record the match (the loop body's second half).
TakeMatch(st, rects, obj_id, best) ==
    IF best # -1
    THEN [st EXCEPT
             !.center_points = DictSet(@, obj_id, Centroid(rects[best])),
             !.tracked = Append(@, [rect |-> rects[best], id |-> obj_id]),
             !.unmatched = ListRemove(@, best),
             !.best_match = Append(@, best)]
    ELSE [st EXCEPT !.best_match = Append(@, -1)]

\* One pass of the outer loop: the tracked object at position j of the dict.
MatchOne(st, rects, j, thresh) ==
    TakeMatch(st, rects, st.center_points[j].id,
              ScanDetections(rects, st.unmatched, st.center_points[j].pt,
                             1, -1, thresh * thresh))

RECURSIVE MatchLoop(_, _, _, _)
MatchLoop(st, rects, j, thresh) ==
    IF j > Len(st.center_points) THEN st
    ELSE MatchLoop(MatchOne(st, rects, j, thresh), rects, j + 1, thresh)

\* A detection left unmatched becomes a new object.
SpawnOneNoStore(st, rect) ==
    [st EXCEPT !.id_count = @ + 1,
               !.tracked = Append(@, [rect |-> rect, id |-> st.id_count + 1])]
SpawnOneReuse(st, rect) ==
    LET new == Len(st.tracked) + 1
    IN  [st EXCEPT !.id_count = new,
                   !.center_points = DictSet(@, new, Centroid(rect)),
                   !.tracked = Append(@, [rect |-> rect, id |-> new])]
SpawnOne(st, rect) ==
    LET new == st.id_count + 1
    IN  [st EXCEPT !.id_count = new,
                   !.center_points = DictSet(@, new, Centroid(rect)),
                   !.tracked = Append(@, [rect |-> rect, id |-> new])]

RECURSIVE SpawnLoop(_, _, _)
SpawnLoop(st, rects, k) ==
    IF k > Len(st.unmatched) THEN st
    ELSE SpawnLoop(SpawnOne(st, rects[st.unmatched[k]]), rects, k + 1)

\* The clean up: only the ids of the returned list stay in the dict.
CleanUpKeepAll(centers, tracked) == centers
CleanUp(centers, tracked) ==
    LET active_ids == {tracked[k].id : k \in 1..Len(tracked)}
    IN  SelectIdx(centers, [k \in 1..Len(centers) |-> centers[k].id \in active_ids], 1)

\* What update leaves and returns, from the state after the matching loop
\* (st1) and after the loop over the unmatched detections (st2).
Returned(st1, st2) ==
    [center_points |-> CleanUp(st2.center_points, st2.tracked),
     id_count |-> st2.id_count,
     tracked_objects |-> st2.tracked,
     best_match |-> st1.best_match,
     new_ids |-> [k \in 1..(Len(st2.tracked) - Len(st1.tracked)) |->
                     st2.tracked[Len(st1.tracked) + k].id]]

Spawned(st1, rects) == Returned(st1, SpawnLoop(st1, rects, 1))

\* EuclideanDistTracker.update: the new dict and counter, the returned
\* list, and the best_match_idx found for each object the call started with.
update(centers, count, rects, thresh) ==
    LET st0 == [center_points |-> centers, id_count |-> count,
                tracked |-> <<>>,
                unmatched |-> [k \in 1..Len(rects) |-> k],
                best_match |-> <<>>]
    IN  Spawned(IF centers # <<>> THEN MatchLoop(st0, rects, 1, thresh) ELSE st0,
                rects)

\* The rectangles [x, y, w, h] the detections are drawn from.
Rects ==
    { <<0, 0, 200, 200>>,      \* centroid (100, 100)
      <<20, 10, 200, 200>>,    \* 22.4 cm from the first
      <<300, 400, 200, 200>>,  \* exactly 5 m from the first
      <<600, 0, 200, 200>>,    \* 6 m from the first, 5 m from the third
      <<100, 0, 200, 0>>,      \* centroid (200, 0)
      <<0, 100, 0, 200>> }     \* centroid (0, 200): as far from (100, 100)

\* The effect of tracker.update(rects) on the tracker and its history.
CallUpdate(rects) ==
    \E r \in {update(center_points, id_count, rects, dist_thresh)} :
        /\ center_points' = r.center_points
        /\ id_count' = r.id_count
        /\ objects_rects' = rects
        /\ prev_points' = center_points
        /\ best_match' = r.best_match
        /\ tracked_objects' = r.tracked_objects
        /\ assigned' = assigned \o r.new_ids
        /\ lost' = lost \cup (Ids(tracked_objects) \ Ids(r.tracked_objects))

TrackerInit ==
    /\ center_points = <<>>
    /\ id_count = 0
    /\ objects_rects = <<>>
    /\ prev_points = <<>>
    /\ best_match = <<>>
    /\ tracked_objects = <<>>
    /\ assigned = <<>>
    /\ lost = {}

\* ------------------------------------------------------------- classifier

\* dims = sorted([feature["width"], feature["length"]])
Unsorted2(a, b) == <<a, b>>
Sorted2(a, b) == IF a <= b THEN <<a, b>> ELSE <<b, a>>

\* The four rules on (n_points, width, length, height); 0.2 m is 20 cm.
Rules(n_points, width, length, height) ==
    IF n_points < 20 \/ (length < 20 /\ width < 20 /\ height < 20)
    THEN "noise"
    ELSE IF height > 100 /\ length < 150 /\ width < 150
    THEN (IF length > 100 THEN "cyclist" ELSE "pedestrian")
    ELSE IF length > 150 /\ width > 100 /\ height > 80 /\ height < 300
    THEN "car"
    ELSE "unknown"

WithDims(feat, dims) == Rules(feat.num_points, dims[1], dims[2], feat.height)

classify_object_advanced(feat) == WithDims(feat, Sorted2(feat.width, feat.length))

\* ------------------------------------------------------------- clustering

\* points[:, :3]: the columns the clustering sees.
AllColumns(p) == p
Xyz(p) == <<p[1], p[2], p[3]>>

\* Squared Euclidean distance of two rows of equal length.
RECURSIVE SqDist(_, _, _)
SqDist(a, b, k) ==
    IF k > Len(a) THEN 0
    ELSE (a[k] - b[k]) * (a[k] - b[k]) + SqDist(a, b, k + 1)

\* The indices of X within radius of row i (i itself included), ascending.
Neighborhood(X, radius, i) ==
    {j \in 1..Len(X) : SqDist(X[i], X[j], 1) <= radius * radius}

IsCore(X, radius, min_pts, i) ==
    Cardinality(Neighborhood(X, radius, i)) >= min_pts

\* A set of integers as an ascending sequence.
RECURSIVE Ascending(_)
Ascending(S) ==
    IF S = {} THEN <<>>
    ELSE LET m == CHOOSE x \in S : \A y \in S : x <= y
         IN  <<m>> \o Ascending(S \ {m})

\* The depth first expansion of one cluster from point i: every unlabelled
\* point reached takes label_num, and only core points push their
\* unlabelled neighbours.
RECURSIVE Expand(_, _, _, _, _, _, _)
Expand(X, radius, min_pts, labs, i, stack, label_num) ==
    LET fresh == labs[i] = -1
        labs1 == IF fresh THEN [labs EXCEPT ![i] = label_num] ELSE labs
        pushed == IF fresh /\ IsCore(X, radius, min_pts, i)
                  THEN Ascending({v \in Neighborhood(X, radius, i) : labs1[v] = -1})
                  ELSE <<>>
        stack1 == stack \o pushed
    IN  IF stack1 = <<>> THEN labs1
        ELSE Expand(X, radius, min_pts, labs1, stack1[Len(stack1)],
                    SubSeq(stack1, 1, Len(stack1) - 1), label_num)

\* The loop over the points in index order: an unlabelled core point starts
\* the next cluster.
RECURSIVE InnerLoop(_, _, _, _, _, _)
InnerLoop(X, radius, min_pts, labs, i, label_num) ==
    IF i > Len(X) THEN labs
    ELSE IF labs[i] # -1 \/ ~IsCore(X, radius, min_pts, i)
    THEN InnerLoop(X, radius, min_pts, labs, i + 1, label_num)
    ELSE InnerLoop(X, radius, min_pts,
                   Expand(X, radius, min_pts, labs, i, <<>>, label_num),
                   i + 1, label_num + 1)

\* DBSCAN(eps, min_samples).fit(X).labels_
DBSCAN(X, radius, min_pts) ==
    InnerLoop(X, radius, min_pts, [k \in 1..Len(X) |-> -1], 1, 0)

\* n_clusters = len(set(labels)) - (1 if -1 in labels else 0)
CountClusters(labs) ==
    Cardinality(Range(labs)) - (IF -1 \in Range(labs) THEN 1 ELSE 0)

\* cluster_objects: [labels, n_clusters].
cluster_objects(pts, radius, min_pts) ==
    IF Len(pts) = 0
    THEN [labels |-> <<>>, n_clusters |-> 0]
    ELSE LET labs == DBSCAN([k \in 1..Len(pts) |-> Xyz(pts[k])], radius, min_pts)
         IN  [labels |-> labs, n_clusters |-> CountClusters(labs)]

\* ----------------------------------------------------- feature extraction

MinOf(S) == CHOOSE x \in S : \A y \in S : x <= y

MaxOf(S) == CHOOSE x \in S : \A y \in S : x >= y

RECURSIVE SumColumn(_, _, _)
SumColumn(rows, col, k) ==
    IF k > Len(rows) THEN 0 ELSE rows[k][col] + SumColumn(rows, col, k + 1)

Column(rows, col) == {rows[k][col] : k \in 1..Len(rows)}

\* The feature dict of one cluster.  Lengths are whole centimetres, which
\* round(., 2) leaves as they are; int(np.mean(.)) truncates (the
\* intensities are not negative).
ClusterFeature(label, cluster_points) ==
    LET min_bound == [c \in 1..3 |-> MinOf(Column(cluster_points, c))]
        max_bound == [c \in 1..3 |-> MaxOf(Column(cluster_points, c))]
        extent == [c \in 1..3 |-> max_bound[c] - min_bound[c]]
    IN  [label |-> label,
         num_points |-> Len(cluster_points),
         width |-> extent[1],
         length |-> extent[2],
         height |-> extent[3],
         avg_intensity |-> SumColumn(cluster_points, 4, 1) \div Len(cluster_points),
         bbox_min |-> min_bound,
         bbox_max |-> max_bound]

\* extract_features: one feature per label of np.unique(labels) but -1, in
\* ascending label order, from the points that carry the label.
extract_features(pts, labs) ==
    LET unique_labels == Ascending(Range(labs) \ {-1})
    IN  [u \in 1..Len(unique_labels) |->
            ClusterFeature(unique_labels[u],
                           SelectIdx(pts, [k \in 1..Len(pts) |->
                                              labs[k] = unique_labels[u]], 1))]

\* ------------------------------------------------------------ frame reader

\* df.columns.str.strip().str.upper(), on the column names the frame
\* sources use.
StripUpper(name) ==
    CASE name \in {"X", " x", "x "} -> "X"
      [] name \in {"Y", "y"} -> "Y"
      [] name \in {"Z", " Z "} -> "Z"
      [] name \in {"INTENSITY", "Intensity", "intensity "} -> "INTENSITY"
      [] OTHER -> name

expected_cols == {"X", "Y", "Z", "INTENSITY"}

\* The absent value.
None == -1

\* The body of the try block.  A frame source is what the file holds:
\* whether pd.read_csv parses it, its column names and its number of data
\* rows (of numbers).  The array returned is modelled by its number of rows.
ReadBody(src) ==
    IF ~src.parses THEN [raised |-> TRUE, value |-> None]
    ELSE IF ~(expected_cols \subseteq {StripUpper(c) : c \in src.header})
    THEN [raised |-> TRUE, value |-> None]
    ELSE IF src.nrows = 0 THEN [raised |-> TRUE, value |-> None]
    ELSE [raised |-> FALSE, value |-> src.nrows]

\* except Exception: return None.
NoHandler(r) == r
Handler(r) == IF r.raised THEN [raised |-> FALSE, value |-> None] ELSE r

read_lidar_csv(src) == Handler(ReadBody(src))

\* ----------------------------------------------------------- ground filter

\* The ground filter takes its lengths in decimetres, so that the squares
\* the plane distances are compared by stay small.

ransac_n == 3

\* RANSAC_DISTANCE_THRESHOLD = 0.2 metres.
distance_threshold == 2

Dot(u, v) == u[1] * v[1] + u[2] * v[2] + u[3] * v[3]

Cross(u, v) ==
    <<u[2] * v[3] - u[3] * v[2], u[3] * v[1] - u[1] * v[3],
      u[1] * v[2] - u[2] * v[1]>>

\* The plane a x + b y + c z + d = 0 through three points (not normalised).
PlaneThrough(p, q, r) ==
    LET n == Cross(<<q[1] - p[1], q[2] - p[2], q[3] - p[3]>>,
                   <<r[1] - p[1], r[2] - p[2], r[3] - p[3]>>)
    IN  <<n[1], n[2], n[3], -Dot(n, p)>>

\* Three points on a line fix no plane.
Degenerate(plane) == plane[1] = 0 /\ plane[2] = 0 /\ plane[3] = 0

\* A point whose perpendicular distance to the plane is at most threshold:
\* |n . p + d| / |n| <= threshold, squared.
IsInlier(plane, p, threshold) ==
    LET e == Dot(plane, p) + plane[4]
    IN  e * e <= threshold * threshold * Dot(plane, plane)

PlaneInliers(X, plane, threshold) ==
    {k \in 1..Len(X) : IsInlier(plane, X[k], threshold)}

\* The samples a draw can be: three distinct points that are not on a line,
\* as (i, j, k) with i < j < k.
Samples(X) ==
    {t \in (1..Len(X)) \X (1..Len(X)) \X (1..Len(X)) :
        /\ t[1] < t[2]
        /\ t[2] < t[3]
        /\ ~Degenerate(PlaneThrough(X[t[1]], X[t[2]], X[t[3]]))}

\* The iterations from draw k on: the plane with the most inliers so far is
\* kept, the earlier one of two with as many.
RECURSIVE Iterate(_, _, _, _, _)
Iterate(X, draws, threshold, k, best) ==
    IF k > Len(draws) THEN best
    ELSE LET t == draws[k]
             plane == PlaneThrough(X[t[1]], X[t[2]], X[t[3]])
             found == PlaneInliers(X, plane, threshold)
         IN  IF Cardinality(found) > Cardinality(best.inliers)
             THEN Iterate(X, draws, threshold, k + 1,
                          [plane_model |-> plane, inliers |-> found])
             ELSE Iterate(X, draws, threshold, k + 1, best)

\* pcd.segment_plane with the samples draws: the winning plane and the
\* indices of its inliers.
segment_plane(X, draws, threshold) ==
    Iterate(X, draws, threshold, 1, [plane_model |-> <<0, 0, 0, 0>>, inliers |-> {}])

\* np.delete(points, inliers, axis=0): the rows whose index is not listed,
\* in their order, every column kept.
np_take(rows, idx) ==
    SelectIdx(rows, [k \in 1..Len(rows) |-> k \in idx], 1)
np_delete(rows, idx) ==
    SelectIdx(rows, [k \in 1..Len(rows) |-> k \notin idx], 1)

\* filter_ground_ransac, with what segment_plane returned in the call.
filter_ground_ransac(pts, threshold, draws) ==
    IF Len(pts) < ransac_n
    THEN [plane_model |-> <<0, 0, 0, 0>>, inliers |-> {}, non_ground_points |-> <<>>]
    ELSE LET seg == segment_plane([k \in 1..Len(pts) |-> Xyz(pts[k])],
                                  draws, threshold)
         IN  [plane_model |-> seg.plane_model, inliers |-> seg.inliers,
              non_ground_points |-> np_delete(pts, seg.inliers)]

\* non_ground_points.shape[0] for an array of nrows rows of which
\* segment_plane returns ground as the plane's.
NonGroundRows(nrows, ground) ==
    IF nrows < ransac_n THEN 0 ELSE nrows - ground

\* -------------------------------------------------------- processing loop

\* feat[key] = value on a feature dict.
DictPut(feat, key, value) == (key :> value) @@ feat

\* feat["class"] = classify_object_advanced(feat), for every feature.
Classified(feats) ==
    [k \in 1..Len(feats) |->
        DictPut(feats[k], "class", classify_object_advanced(feats[k]))]

\* detections_for_tracker: [min_x, min_y, width, length] of the features
\* that are not noise, in the order of the features.
RECURSIVE DetectionsFromMax(_, _)
DetectionsFromMax(feats, k) ==
    IF k > Len(feats) THEN <<>>
    ELSE (IF feats[k].class # "noise"
          THEN << <<feats[k].bbox_max[1], feats[k].bbox_max[2],
                    feats[k].width, feats[k].length>> >>
          ELSE <<>>) \o DetectionsFromMax(feats, k + 1)
RECURSIVE Detections(_, _)
Detections(feats, k) ==
    IF k > Len(feats) THEN <<>>
    ELSE (IF feats[k].class # "noise"
          THEN << <<feats[k].bbox_min[1], feats[k].bbox_min[2],
                    feats[k].width, feats[k].length>> >>
          ELSE <<>>) \o Detections(feats, k + 1)

Abs(v) == IF v < 0 THEN -v ELSE v

\* abs(min_x - tx) < 0.1 and abs(min_y - ty) < 0.1 (0.1 m is 10 cm).
Within(feat, tobj) ==
    /\ Abs(feat.bbox_min[1] - tobj.rect[1]) < 10
    /\ Abs(feat.bbox_min[2] - tobj.rect[2]) < 10

\* for tobj in tracked_objects: the id at the first match (break), from
\* position t on; found is the id the feature has so far.
RECURSIVE ScanTrackedNoBreak(_, _, _, _)
ScanTrackedNoBreak(feat, tracked, t, found) ==
    IF t > Len(tracked) THEN found
    ELSE IF Within(feat, tracked[t])
    THEN ScanTrackedNoBreak(feat, tracked, t + 1, tracked[t].id)
    ELSE ScanTrackedNoBreak(feat, tracked, t + 1, found)
RECURSIVE ScanTracked(_, _, _, _)
ScanTracked(feat, tracked, t, found) ==
    IF t > Len(tracked) THEN found
    ELSE IF Within(feat, tracked[t]) THEN tracked[t].id
    ELSE ScanTracked(feat, tracked, t + 1, found)

\* Match the tracker ids back to the feature list.
RECURSIVE LinkConsuming(_, _, _)
LinkConsuming(feats, tracked, k) ==
    IF k > Len(feats) THEN <<>>
    ELSE LET oid == IF feats[k].class # "noise"
                    THEN ScanTracked(feats[k], tracked, 1, -1)
                    ELSE -1
         IN  <<DictPut(feats[k], "object_id", oid)>>
             \o LinkConsuming(feats,
                              SelectIdx(tracked, [t \in 1..Len(tracked) |->
                                                     tracked[t].id # oid], 1),
                              k + 1)
LinkedConsuming(feats, tracked) == LinkConsuming(feats, tracked, 1)
Linked(feats, tracked) ==
    [k \in 1..Len(feats) |->
        DictPut(feats[k], "object_id",
                IF feats[k].class # "noise"
                THEN ScanTracked(feats[k], tracked, 1, -1)
                ELSE -1)]

\* One record of output_data.
OutputRecord(feat) ==
    [object_id |-> feat.object_id,
     cluster_id |-> feat.label,
     class |-> feat.class,
     num_points |-> feat.num_points,
     dimensions_m |-> [width |-> feat.width, length |-> feat.length,
                       height |-> feat.height],
     avg_intensity |-> feat.avg_intensity]

\* output_data: the records of the features that are not noise.
OutputDataAll(feats) == [k \in 1..Len(feats) |-> OutputRecord(feats[k])]
OutputData(feats) ==
    LET keep == SelectIdx(feats, [k \in 1..Len(feats) |-> feats[k].class # "noise"], 1)
    IN  [k \in 1..Len(keep) |-> OutputRecord(keep[k])]

\* ------------------------------------- the parts a specification leaves out

ClassifyIdle ==
    /\ feature = [num_points |-> 0, width |-> 0, length |-> 0, height |-> 0]
    /\ class = ""

ClusterIdle ==
    /\ points = <<>>
    /\ eps = 0
    /\ min_samples = 0
    /\ labels = <<>>
    /\ n_clusters = 0

GroundIdle ==
    /\ plane_model = <<0, 0, 0, 0>>
    /\ inliers = {}
    /\ non_ground_points = <<>>

PipelineIdle ==
    /\ nframes = 0
    /\ frame_i = 0
    /\ frame = [parses |-> FALSE, header |-> {},
                nrows |-> 0, ground |-> 0, clusters |-> <<>>]
    /\ inputs = <<>>
    /\ written = {}
    /\ skipped = {}
    /\ output_data = <<>>

\* ------------------------------------------------ the clustering on its own

\* The positions the points are drawn from: a grid of 1 m steps, five by
\* two, in row order; the intensity varies with the position.
PointPool ==
    [k \in 1..10 |->
        LET x == 100 * ((k - 1) % 5)
            y == 100 * ((k - 1) \div 5)
        IN  <<x, y, 0, x \div 10 + y \div 20>>]

InitCluster ==
    /\ GroundIdle
    /\ pc = "points"
    /\ TrackerInit
    /\ ClassifyIdle
    /\ PipelineIdle
    /\ \E S \in SUBSET (1..Len(PointPool)) :
          /\ Cardinality(S) <= MaxPoints
          /\ points = [k \in 1..Cardinality(S) |-> PointPool[Ascending(S)[k]]]
    /\ eps \in {100, 150}
    /\ min_samples \in {2, 3, 4}
    /\ labels = <<>>
    /\ n_clusters = 0
    /\ features = <<>>

Cluster ==
    /\ pc = "points"
    /\ \E r \in {cluster_objects(points, eps, min_samples)} :
          /\ labels' = r.labels
          /\ n_clusters' = r.n_clusters
    /\ pc' = "clustered"
    /\ UNCHANGED <<trackerVars, classifyVars, groundVars, points, eps, min_samples, features,
                   pipelineVars>>

ExtractFeatures ==
    /\ pc = "clustered"
    /\ n_clusters > 0
    /\ features' = extract_features(points, labels)
    /\ pc' = "extracted"
    /\ UNCHANGED <<trackerVars, classifyVars, clusterVars, groundVars, pipelineVars>>

NextCluster == Cluster \/ ExtractFeatures

SpecCluster == InitCluster /\ [][NextCluster]_vars

\* --------------------------------------------- the ground filter on its own

\* The rows the arrays are drawn from, in decimetres: three on the plane
\* z = 0, one 1 dm above it, one exactly 2 dm above it, and two farther up,
\* in mixed order.
CloudPool ==
    << <<2, 2, 3, 60>>, <<0, 0, 0, 10>>, <<2, 2, 2, 50>>, <<4, 0, 0, 20>>,
       <<1, 3, 5, 70>>, <<0, 4, 0, 30>>, <<4, 4, 1, 40>> >>

InitGround ==
    /\ pc = "cloud"
    /\ TrackerInit
    /\ ClassifyIdle
    /\ PipelineIdle
    /\ GroundIdle
    /\ features = <<>>
    /\ \E S \in SUBSET (1..Len(CloudPool)) :
          /\ Cardinality(S) <= MaxCloud
          /\ points = [k \in 1..Cardinality(S) |-> CloudPool[Ascending(S)[k]]]
    /\ eps = 0
    /\ min_samples = 0
    /\ labels = <<>>
    /\ n_clusters = 0

\* One call of filter_ground_ransac; the samples are segment_plane's choice.
FilterGround ==
    /\ pc = "cloud"
    /\ \E draws \in [1..num_iterations -> Samples(points)] \cup
                     (IF Len(points) < ransac_n THEN {<<>>} ELSE {}) :
          \E r \in {filter_ground_ransac(points, distance_threshold, draws)} :
              /\ plane_model' = r.plane_model
              /\ inliers' = r.inliers
              /\ non_ground_points' = r.non_ground_points
    /\ pc' = "filtered"
    /\ UNCHANGED <<trackerVars, classifyVars, clusterVars, features, pipelineVars>>

NextGround == FilterGround

SpecGround == InitGround /\ [][NextGround]_vars

\* ----------------------------------------------- the classifier on its own

\* The values the classifier's inputs are drawn from: both sides of every
\* threshold of the rules.
NumPoints == {19, 20, 80}

Horizontal == {5, 19, 20, 100, 101, 149, 150, 151, 300}

Heights == {5, 19, 20, 80, 81, 100, 101, 299, 300}

InitClassify ==
    /\ GroundIdle
    /\ pc = "feature"
    /\ TrackerInit
    /\ ClusterIdle
    /\ PipelineIdle
    /\ features = <<>>
    /\ feature \in [num_points : NumPoints, width : Horizontal,
                    length : Horizontal, height : Heights]
    /\ class = ""

Classify ==
    /\ pc = "feature"
    /\ class' = classify_object_advanced(feature)
    /\ pc' = "classified"
    /\ UNCHANGED <<trackerVars, feature, clusterVars, groundVars, features,
                   pipelineVars>>

NextClassify == Classify

SpecClassify == InitClassify /\ [][NextClassify]_vars

\* ------------------------------------------------- the tracker on its own

InitTracker ==
    /\ GroundIdle
    /\ pc = "new"
    /\ TrackerInit
    /\ ClassifyIdle
    /\ ClusterIdle
    /\ PipelineIdle
    /\ features = <<>>

Update ==
    /\ pc \in {"new", "updated"}
    /\ \E rects \in SeqsUpTo(Rects, MaxDets) :
          /\ id_count + Len(rects) <= MaxId
          /\ CallUpdate(rects)
    /\ pc' = "updated"
    /\ UNCHANGED <<classifyVars, clusterVars, groundVars, features, pipelineVars>>

NextTracker == Update

SpecTracker == InitTracker /\ [][NextTracker]_vars

\* ------------------------------------------------------------ the pipeline

\* What ground filtering and clustering leave of a frame is given with the
\* frame source: the number of rows segment_plane takes as the ground, and
\* the clusters, each as extract_features describes it.
ClusterPool ==
    { [num_points |-> 50, width |-> 50, length |-> 60, height |-> 170,
       avg_intensity |-> 30,
       bbox_min |-> <<0, 0, 0>>, bbox_max |-> <<50, 60, 170>>],
      [num_points |-> 50, width |-> 50, length |-> 130, height |-> 180,
       avg_intensity |-> 40,
       bbox_min |-> <<5, 0, 0>>, bbox_max |-> <<55, 130, 180>>],
      [num_points |-> 100, width |-> 180, length |-> 400, height |-> 150,
       avg_intensity |-> 90,
       bbox_min |-> <<10, 0, 0>>, bbox_max |-> <<190, 400, 150>>],
      [num_points |-> 5, width |-> 10, length |-> 10, height |-> 10,
       avg_intensity |-> 7,
       bbox_min |-> <<2, 0, 0>>, bbox_max |-> <<12, 10, 10>>],
      [num_points |-> 50, width |-> 30, length |-> 30, height |-> 50,
       avg_intensity |-> 20,
       bbox_min |-> <<600, 0, 0>>, bbox_max |-> <<630, 30, 50>>] }

ClusterLists ==
    {cl \in SeqsUpTo(ClusterPool, MaxClusters) :
        \A a, b \in 1..Len(cl) : a # b => cl[a] # cl[b]}

Sources ==
    { [parses |-> FALSE, header |-> {}, nrows |-> 0, ground |-> 0,
       clusters |-> <<>>],
      [parses |-> TRUE, header |-> {"X", "Y", "Z", "T"}, nrows |-> 300,
       ground |-> 100, clusters |-> <<>>],
      [parses |-> TRUE, header |-> {"X", "Y", "Z", "INTENSITY"}, nrows |-> 0,
       ground |-> 0, clusters |-> <<>>],
      [parses |-> TRUE, header |-> {" x", "y", " Z ", "intensity "}, nrows |-> 2,
       ground |-> 0, clusters |-> <<>>],
      [parses |-> TRUE, header |-> {"X", "Y", "Z", "INTENSITY"}, nrows |-> 300,
       ground |-> 300, clusters |-> <<>>] }
    \cup
    { [parses |-> TRUE, header |-> {"x ", "Y", "Z", "Intensity", "T"},
       nrows |-> 300, ground |-> 100, clusters |-> cl] :
      cl \in ClusterLists }

\* What the history keeps of a frame source.
Facts(src) ==
    [parses |-> src.parses, header |-> src.header, nrows |-> src.nrows,
     ground |-> src.ground]

\* The features of a frame's clusters: the labels are 0, 1, ... in order.
FrameFeatures(src) ==
    [k \in 1..Len(src.clusters) |-> DictPut(src.clusters[k], "label", k - 1)]

InitPipeline ==
    /\ GroundIdle
    /\ pc = "start"
    /\ TrackerInit
    /\ ClassifyIdle
    /\ ClusterIdle
    /\ features = <<>>
    /\ nframes \in 0..MaxFrames
    /\ frame_i = 0
    /\ frame = [parses |-> FALSE, header |-> {},
                nrows |-> 0, ground |-> 0, clusters |-> <<>>]
    /\ inputs = <<>>
    /\ written = {}
    /\ skipped = {}
    /\ output_data = <<>>

\* if not all_paths: exit()
Start ==
    /\ pc = "start"
    /\ pc' = IF nframes = 0 THEN "exited" ELSE "loop"
    /\ UNCHANGED <<trackerVars, classifyVars, clusterVars, groundVars, features,
                   pipelineVars>>

\* An exception nothing catches ends the run.
Uncaught ==
    /\ pc' = "aborted"
    /\ UNCHANGED <<trackerVars, features, frame_i, written, skipped, output_data>>

\* points_with_intensity is None: "Skipped: Could not read the file."
SkipUnread ==
    /\ skipped' = skipped \cup {frame_i + 1}
    /\ UNCHANGED <<trackerVars, features, written, output_data>>

\* non_ground_points.shape[0] == 0: "Skipping frame."
SkipNoPoints ==
    UNCHANGED <<trackerVars, features, written, skipped, output_data>>

\* Steps 4 and 6 of the loop for the features feats of the frame (none when
\* n_clusters is 0).
TrackAndSave(feats) ==
    /\ IF Len(feats) > 0
       THEN \E cf \in {Classified(feats)} :
                /\ CallUpdate(Detections(cf, 1))
                /\ features' = Linked(cf, tracked_objects')
       ELSE /\ features' = <<>>
            /\ CallUpdate(<<>>)
    /\ output_data' = OutputData(features')
    /\ written' = written \cup {frame_i + 1}
    /\ UNCHANGED skipped

\* One pass of the processing loop.
LoopBody ==
    /\ pc = "loop"
    /\ frame_i < nframes
    /\ \E src \in Sources : \E r \in {read_lidar_csv(src)} :
          /\ frame' = src
          /\ inputs' = Append(inputs, Facts(src))
          /\ IF r.raised THEN Uncaught
             ELSE /\ pc' = "loop"
                  /\ frame_i' = frame_i + 1
                  /\ IF r.value = None THEN SkipUnread
                     ELSE \E left \in {NonGroundRows(r.value, src.ground)} :
                              IF left = 0 THEN SkipNoPoints
                              ELSE TrackAndSave(FrameFeatures(src))
    /\ UNCHANGED <<classifyVars, clusterVars, groundVars, nframes>>

\* The loop is over: "Processing complete."
Finish ==
    /\ pc = "loop"
    /\ frame_i = nframes
    /\ pc' = "done"
    /\ UNCHANGED <<trackerVars, classifyVars, clusterVars, groundVars, features,
                   pipelineVars>>

NextPipeline == Start \/ LoopBody \/ Finish

SpecPipeline == InitPipeline /\ [][NextPipeline]_vars

\* ------------------------------------------------------- claims: tracker

\* C1: after every update call the ids stored in center_points are exactly
\* the ids of the list the call returned.
C1_StateIsOutput ==
    Ids(center_points) = {tracked_objects[k].id : k \in 1..Len(tracked_objects)}

\* An update that dropped an identity it started with and returned others.
C1_Witness ==
    /\ pc = "updated"
    /\ tracked_objects # <<>>
    /\ \E k \in 1..Len(prev_points) : prev_points[k].id \notin Ids(center_points)

\* C2: every id given to a new object is positive and greater than every id
\* assigned before it, so no id is assigned twice.
C2_IdsIncrease ==
    \A k \in 1..Len(assigned) :
        /\ assigned[k] > 0
        /\ \A j \in 1..(k - 1) : assigned[j] < assigned[k]

\* New objects appear after update([]) emptied a tracker that had identities.
C2_Witness ==
    /\ Len(assigned) >= 3
    /\ prev_points = <<>>
    /\ lost # {}
    /\ tracked_objects # <<>>

\* C3: an id that was in one returned list and not in the next is in no
\* later returned list (nor in the dict), and update([]) returns [] and
\* leaves the dict empty.
C3_LostIsGone ==
    /\ \A k \in 1..Len(tracked_objects) : tracked_objects[k].id \notin lost
    /\ lost \cap Ids(center_points) = {}
    /\ (pc = "updated" /\ objects_rects = <<>>) =>
           (tracked_objects = <<>> /\ center_points = <<>>)

\* Identities were lost earlier and the last call, with detections, returned
\* objects while an earlier lost identity's id stays out.
C3_Witness ==
    /\ pc = "updated"
    /\ lost # {}
    /\ objects_rects # <<>>
    /\ \E k \in 1..Len(prev_points) : prev_points[k].id \notin Ids(center_points)
    /\ \E k \in 1..Len(tracked_objects) : tracked_objects[k].id \in Ids(prev_points)

\* The detections not yet consumed when the k-th tracked object is processed.
C4_Avail(k) ==
    (1..Len(objects_rects)) \ {best_match[j] : j \in 1..(k - 1)}

\* Squared distance (in half centimetres) between the centroid of detection
\* i, corner plus half the size, and the stored centroid of tracked object k.
C4_Dist2(i, k) ==
    LET r == objects_rects[i]
        dx == (2 * r[1] + r[3]) - prev_points[k].pt[1]
        dy == (2 * r[2] + r[4]) - prev_points[k].pt[2]
    IN  dx * dx + dy * dy

\* How many of the first k tracked objects were matched.
C4_Matched(k) == Cardinality({j \in 1..k : best_match[j] # -1})

\* C4: the tracked objects are taken in the dict's order; each gets the
\* unconsumed detection of least centroid distance, if that is strictly
\* below dist_thresh, the earliest among equals; it keeps its id, its
\* stored centroid becomes the detection's, and the detection is consumed.
C4_GreedyNearest ==
    /\ Len(best_match) = Len(prev_points)
    /\ \A k \in 1..Len(prev_points) :
          LET m == best_match[k]
          IN  IF m = -1
              THEN \A i \in C4_Avail(k) : C4_Dist2(i, k) >= 1000 * 1000
              ELSE /\ m \in C4_Avail(k)
                   /\ C4_Dist2(m, k) < 1000 * 1000
                   /\ \A i \in C4_Avail(k) :
                         \/ C4_Dist2(i, k) > C4_Dist2(m, k)
                         \/ C4_Dist2(i, k) = C4_Dist2(m, k) /\ i >= m
                   /\ tracked_objects[C4_Matched(k)] =
                         [rect |-> objects_rects[m], id |-> prev_points[k].id]
                   /\ \E c \in 1..Len(center_points) :
                         center_points[c] =
                             [id |-> prev_points[k].id,
                              pt |-> <<2 * objects_rects[m][1] + objects_rects[m][3],
                                       2 * objects_rects[m][2] + objects_rects[m][4]>>]

\* The first tracked object had two equally distant detections and took the
\* earlier one, which was the nearest detection of the second tracked object.
C4_Witness ==
    /\ Len(prev_points) = 2
    /\ Len(objects_rects) = 2
    /\ best_match = <<1, 2>>
    /\ C4_Dist2(1, 1) = C4_Dist2(2, 1)
    /\ C4_Dist2(1, 2) < C4_Dist2(2, 2)

\* How many tuples of the returned list carry the rectangle r.
C13_Returned(r) ==
    Cardinality({t \in 1..Len(tracked_objects) : tracked_objects[t].rect = r})

\* How many detections of the call are the rectangle r.
C13_Given(r) ==
    Cardinality({i \in 1..Len(objects_rects) : objects_rects[i] = r})

\* C13: the list an update call returns has one tuple per detection of the
\* call, each with the detection's x, y, w and h unchanged (equal detections
\* counted as often as they were given), and no id twice.
C13_OneTuplePerDetection ==
    /\ Len(tracked_objects) = Len(objects_rects)
    /\ \A i \in 1..Len(objects_rects) :
          C13_Returned(objects_rects[i]) = C13_Given(objects_rects[i])
    /\ \A t \in 1..Len(tracked_objects) :
          C13_Given(tracked_objects[t].rect) > 0
    /\ \A t, u \in 1..Len(tracked_objects) :
          t # u => tracked_objects[t].id # tracked_objects[u].id

\* Two equal detections next to two tracked objects, each of which took one
\* of them, and a call where one of two equal detections was matched and
\* the other became a new object.
C13_Witness ==
    /\ pc = "updated"
    /\ Len(objects_rects) = 2
    /\ objects_rects[1] = objects_rects[2]
    /\ Len(tracked_objects) = 2
    /\ \/ Len(prev_points) = 2 /\ best_match = <<1, 2>>
       \/ Len(prev_points) = 1 /\ best_match = <<1>>
             /\ tracked_objects[2].id = id_count

\* ---------------------------------------------------- claims: classifier

C9_Min(a, b) == IF a < b THEN a ELSE b

C9_Max(a, b) == IF a < b THEN b ELSE a

C9_Noise(n, w, l, h) == n < 20 \/ (l < 20 /\ w < 20 /\ h < 20)

C9_Narrow(w, l, h) == h > 100 /\ l < 150 /\ w < 150

C9_Car(w, l, h) == l > 150 /\ w > 100 /\ 80 < h /\ h < 300

\* C9: classify_object_advanced returns one of the five labels, the one the
\* ordered rules fix with width the smaller and length the larger of the
\* two horizontal extents.
C9_Classification ==
    pc = "classified" =>
        LET n == feature.num_points
            w == C9_Min(feature.width, feature.length)
            l == C9_Max(feature.width, feature.length)
            h == feature.height
        IN  /\ class \in {"noise", "pedestrian", "cyclist", "car", "unknown"}
            /\ class = "noise" <=> C9_Noise(n, w, l, h)
            /\ class = "cyclist" <=>
                   ~C9_Noise(n, w, l, h) /\ C9_Narrow(w, l, h) /\ l > 100
            /\ class = "pedestrian" <=>
                   ~C9_Noise(n, w, l, h) /\ C9_Narrow(w, l, h) /\ ~(l > 100)
            /\ class = "car" <=>
                   ~C9_Noise(n, w, l, h) /\ ~C9_Narrow(w, l, h) /\ C9_Car(w, l, h)
            /\ class = "unknown" <=>
                   ~C9_Noise(n, w, l, h) /\ ~C9_Narrow(w, l, h) /\ ~C9_Car(w, l, h)
            /\ (feature = [num_points |-> 80, width |-> 5, length |-> 300,
                           height |-> 5]) => class = "unknown"

\* A car whose x extent is the larger one: the reordering decides the label.
C9_Witness ==
    /\ pc = "classified"
    /\ feature.width > 150
    /\ feature.length = 101
    /\ class = "car"

\* ---------------------------------------------------- claims: clustering

\* The points within eps of point k, by position only.
C8_Near(k) ==
    {j \in 1..Len(points) :
        (points[k][1] - points[j][1]) * (points[k][1] - points[j][1])
        + (points[k][2] - points[j][2]) * (points[k][2] - points[j][2])
        + (points[k][3] - points[j][3]) * (points[k][3] - points[j][3])
        <= eps * eps}

C8_Core(k) == Cardinality(C8_Near(k)) >= min_samples

C8_Members(c) == {k \in 1..Len(labels) : labels[k] = c}

C10_CanRead(f) ==
    /\ f.parses
    /\ \A c \in {"X", "Y", "Z", "INTENSITY"} : \E h \in f.header : StripUpper(h) = c
    /\ f.nrows > 0

\* The number of non-ground points of a frame with the facts f.
C10_PointsLeft(f) == IF f.nrows < 3 THEN 0 ELSE f.nrows - f.ground

\* C5 as claimed: after a frame that was read and yields no detections, for
\* want of non-ground points or of clusters that are not noise, the tracker
\* tracks no identity.
C5_EmptyFrameClearsTracker ==
    (/\ pc \in {"loop", "done"}
     /\ frame_i >= 1
     /\ C10_CanRead(inputs[frame_i])
     /\ \/ C10_PointsLeft(inputs[frame_i]) = 0
        \/ \A k \in 1..Len(frame.clusters) :
               classify_object_advanced(frame.clusters[k]) = "noise")
    => center_points = <<>>

\* The tuples of the tracker's list within tolerance of feature k.
C6_Hits(k) ==
    {t \in 1..Len(tracked_objects) :
        /\ features[k].bbox_min[1] - tracked_objects[t].rect[1] \in -9..9
        /\ features[k].bbox_min[2] - tracked_objects[t].rect[2] \in -9..9}

C6_First(k) == CHOOSE t \in C6_Hits(k) : \A u \in C6_Hits(k) : t <= u

C6_Gap2(k, t) ==
    (features[k].bbox_min[1] - tracked_objects[t].rect[1])
    * (features[k].bbox_min[1] - tracked_objects[t].rect[1])
    + (features[k].bbox_min[2] - tracked_objects[t].rect[2])
      * (features[k].bbox_min[2] - tracked_objects[t].rect[2])

C10_Unread == {k \in 1..Len(inputs) : ~C10_CanRead(inputs[k])}

C11_NotNoise == {k \in 1..Len(features) : features[k].class # "noise"}

\* The position in features of the j-th feature that is not noise.
C11_Nth(j) ==
    CHOOSE k \in C11_NotNoise :
        Cardinality({m \in C11_NotNoise : m <= k}) = j

\* C11: the output list of a frame holds one record per feature that is not
\* noise, in the order of the features, with the feature's cluster id,
\* class and measures; every record's class is one of pedestrian, cyclist,
\* car and unknown, and no record has the class noise.
C11_OneRecordPerObject ==
    /\ Len(output_data) = Cardinality(C11_NotNoise)
    /\ \A j \in 1..Len(output_data) :
          /\ output_data[j].class \in {"pedestrian", "cyclist", "car", "unknown"}
          /\ output_data[j].class = features[C11_Nth(j)].class
          /\ output_data[j].cluster_id = features[C11_Nth(j)].label
          /\ output_data[j].object_id = features[C11_Nth(j)].object_id
          /\ output_data[j].num_points = features[C11_Nth(j)].num_points
          /\ output_data[j].avg_intensity = features[C11_Nth(j)].avg_intensity
    /\ \A k \in 1..Len(features) :
          features[k].class = classify_object_advanced(features[k])

\* A written frame whose first cluster is noise and whose second is of no
\* known kind: the output is the one record of the second.
C11_Witness ==
    /\ frame_i \in written
    /\ Len(features) = 2
    /\ features[1].class = "noise"
    /\ Len(output_data) = 1
    /\ output_data[1].class = "unknown"
    /\ output_data[1].cluster_id = 1

\* The tuples of the tracker's list that are feature k's own detection: its
\* bounding box minimum in x and y, its width and its length.
C14_Own(k) ==
    {t \in 1..Len(tracked_objects) :
        tracked_objects[t].rect = <<features[k].bbox_min[1], features[k].bbox_min[2],
                                    features[k].width, features[k].length>>}

\* C14: the tracker's list holds the detection of every feature that is not
\* noise, a tuple at distance 0 from the feature's bounding box minimum, so
\* the linkage gives the feature an id of that list and never leaves -1,
\* and no output record has the object id -1.
C14_EveryObjectLinked ==
    /\ \A k \in 1..Len(features) :
          features[k].class # "noise" =>
              /\ C14_Own(k) # {}
              /\ C14_Own(k) \subseteq C6_Hits(k)
              /\ features[k].object_id # -1
              /\ \E t \in 1..Len(tracked_objects) :
                    tracked_objects[t].id = features[k].object_id
    /\ \A j \in 1..Len(output_data) :
          /\ output_data[j].object_id # -1
          /\ \E t \in 1..Len(tracked_objects) :
                tracked_objects[t].id = output_data[j].object_id

\* A frame after the first with two features that are not noise: one kept
\* the id of an earlier frame, the other got a new one, and both records
\* were written with their ids.
C14_Witness ==
    /\ frame_i \in written
    /\ frame_i >= 2
    /\ Len(features) = 2
    /\ Len(output_data) = 2
    /\ output_data[1].object_id = features[1].object_id
    /\ output_data[2].object_id = features[2].object_id
    /\ output_data[1].object_id # output_data[2].object_id
    /\ \E k \in 1..Len(prev_points) :
          prev_points[k].id \in {output_data[1].object_id, output_data[2].object_id}
    /\ id_count \in {output_data[1].object_id, output_data[2].object_id}
    /\ id_count \notin Ids(prev_points)

\* ------------------------------------------------- claims: ground filter

\* Row k of the input is farther from the winning plane than the threshold
\* (0.2 m, 2 dm): |a x + b y + c z + d| > 2 |(a, b, c)|, squared.
C12_Far(k) ==
    LET e == plane_model[1] * points[k][1] + plane_model[2] * points[k][2]
             + plane_model[3] * points[k][3] + plane_model[4]
    IN  e * e > 4 * (plane_model[1] * plane_model[1]
                     + plane_model[2] * plane_model[2]
                     + plane_model[3] * plane_model[3])

C12_Kept == {k \in 1..Len(points) : C12_Far(k)}

\* The index of the j-th row that is kept.
C12_Nth(j) ==
    CHOOSE k \in C12_Kept : Cardinality({m \in C12_Kept : m <= k}) = j

====
